---- MODULE Spec2Model ----
(***************************************************************************)
(* Rit - Rust Image Transformer (src/src/main.rs).                         *)
(*                                                                         *)
(* The model follows main(): the input-root check, the seeding of the      *)
(* label registry from a prior manifest (read_existing_training_data),     *)
(* process_directory (a rayon par_bridge pool whose workers run the        *)
(* for_each closure once per discovered file, sharing three mutexes), and  *)
(* the writing of training_data.json (Spec, SpecPrior). process_image and  *)
(* the closure's output path statements are pure and are followed on their *)
(* own, one call at a time (SpecImage, SpecPath).                          *)
(***************************************************************************)
EXTENDS Integers, Sequences, FiniteSets, TLC

\* ---------------------------------------------------------------- bounds
NumWorkers == 2
NumFiles == 2
MaxManifest == 2
MaxDim == 3
MaxCount == 2

Workers == 1..NumWorkers
\* Parent-directory names of the input files, and labels of prior manifests.
LabelSeq == <<"cats", "dogs">>
Labels == {LabelSeq[i] : i \in DOMAIN LabelSeq}
LabelPos(l) == CHOOSE i \in DOMAIN LabelSeq : LabelSeq[i] = l
\* Extensions of the files in the input tree; NoExt: path.extension() is None.
NoExt == ""
FileExts == {"png", "Png", "JPG", "txt", NoExt}
\* Class indices a prior manifest may carry.
SeedIndices == {0, 1}

NoOne == 0
NoFile == 0
VARIABLES
    mainPc,                 \* position of main()
    existing_data,          \* the deserialized prior manifest, while the seeding loop runs
    seed_i,                 \* the seeding loop's position in existing_data
    prior,                  \* the entries the prior manifest holds (history, SpecPrior)
    seeded,                 \* the map read_existing_training_data returned (history)
    files,                  \* the regular files WalkDir yields
    fileDir,                \* file -> name of its parent directory
    preserve_filenames,     \* cli.preserve_filenames
    outRootExists,          \* whether output_dir exists on disk
    label_to_class_index,   \* Mutex<HashMap<String, usize>>: the map
    mapLock,                \* ... and the worker holding its mutex
    training_data,          \* Mutex<Vec<TrainingData>>: the vector
    dataLock,               \* ... and the worker holding its mutex
    processed_count,        \* Mutex<i32>: the counter
    countLock,              \* ... and the worker holding its mutex
    queue,                  \* files the walker has not handed out yet
    pc,                     \* worker -> position in the for_each closure
    cur,                    \* worker -> the entry it is processing
    out_name,               \* worker -> counter value read for the new filename
    class_index,            \* worker -> the closure's local class_index
    fstat,                  \* file -> what happened to it (history)
    inserted,               \* label -> number of label_map.insert calls (history)
    manifest_written,       \* whether training_data.json has been written
    image,                  \* process_image: the local image
    image0,                 \* process_image: the image it was called with (history)
    config,                 \* process_image: the Config it was called with
    ipc,                    \* position in process_image
    path,                   \* the closure's path, relative to input_dir
    output_path,            \* the closure's local output_path
    preserve_formats,       \* cli.preserve_formats
    opc                     \* position in the closure's output path statements

vars == <<mainPc, existing_data, seed_i, prior, seeded, files, fileDir, preserve_filenames, outRootExists,
          label_to_class_index, mapLock, training_data, dataLock, processed_count,
          countLock, queue, pc, cur, out_name, class_index, fstat, inserted,
          manifest_written, image, image0, config, ipc, path, output_path,
          preserve_formats, opc>>

run == <<mainPc, existing_data, seed_i, prior, seeded, files, fileDir,
         preserve_filenames, outRootExists, label_to_class_index, mapLock,
         training_data, dataLock, processed_count, countLock, queue, pc, cur,
         out_name, class_index, fstat, inserted, manifest_written>>
transform == <<image, image0, config, ipc>>
pathing == <<path, output_path, preserve_formats, opc>>
inputs == <<files, fileDir, preserve_filenames>>
seeding == <<existing_data, seed_i, prior, seeded>>
locks == <<mapLock, dataLock, countLock>>

\* ------------------------------------------------------- data and helpers
ManifestEntries == [labels : Labels, class_index : SeedIndices]

RECURSIVE SeqsUpTo(_, _)
SeqsUpTo(S, n) ==
    IF n = 0 THEN {<<>>}
    ELSE LET shorter == SeqsUpTo(S, n - 1)
         IN shorter \cup {Append(s, e) : s \in {t \in shorter : Len(t) = n - 1}, e \in S}

\* What a prior manifest may hold
PriorManifests == SeqsUpTo(ManifestEntries, MaxManifest)

EmptyMap == [l \in {} |-> 0]

\* HashMap::insert
MapInsert(m, k, v) == [l \in DOMAIN m \cup {k} |-> IF l = k THEN v ELSE m[l]]

\* or_insert replaced by insert: a later entry overwrites an earlier one
OrInsertOverwriting(m, k, v) == MapInsert(m, k, v)

\* HashMap::entry(k).or_insert(v)
OrInsert(m, k, v) == IF k \in DOMAIN m THEN m ELSE MapInsert(m, k, v)

ALLOWED_EXTENSIONS == {"png", "jpg", "jpeg"}

\* str::to_lowercase on the extensions of FileExts
to_lowercase(ext) ==
    CASE ext = "JPG" -> "jpg"
      [] ext = "Png" -> "png"
      [] OTHER -> ext

\* Eligible, were the extension compared as it is spelt
EligibleCaseSensitive(ext) == ext # NoExt /\ ext \in ALLOWED_EXTENSIONS

\* main.rs:187-190
Eligible(ext) == ext # NoExt /\ to_lowercase(ext) \in ALLOWED_EXTENSIONS

\* The walks of n files, up to the naming of the files: the files are numbered
\* so that their parent directories come in the order of LabelSeq.
Walks(n) ==
    {d \in [1..n -> Labels] :
        \A f, g \in 1..n : f < g => LabelPos(d[f]) <= LabelPos(d[g])}

\* The dataset name: output_dir.file_name()
Dataset == "out"

\* output_path: the mirrored directory and the file name (the file's own stem, or
\* the counter value that replaces it)
OutputPath(f, w) ==
    IF preserve_filenames THEN <<fileDir[f], "stem", f>>
    ELSE <<fileDir[f], "seq", out_name[w]>>

Record(f, w) ==
    [class_index |-> class_index[w], filepaths |-> OutputPath(f, w),
     labels |-> fileDir[f], dataset |-> Dataset, src |-> f]

\* ------------------------------------------------------------ images
\* An image: its dimensions and, for every position, the pixel there. A pixel is
\* named by where it comes from: <<"src", x, y>> in a decoded image.
Pos(w, h) == (0..(w - 1)) \X (0..(h - 1))
Decode(w, h) ==
    [width |-> w, height |-> h, px |-> [p \in Pos(w, h) |-> <<"src", p[1], p[2]>>]]
SourceImages == {Decode(w, h) : w \in 1..MaxDim, h \in 1..MaxDim}
NoImage == [width |-> 0, height |-> 0, px |-> <<>>]

\* Option<T>: None is the empty set, Some(x) is {x}
None == {}
Some(x) == {x}
Unwrap(o) == CHOOSE x \in o : TRUE

\* main.rs:52-58: enum ResizeOption, with the percentage a whole number
NoArg == 0
Percents == {50, 150}
ResizeOptions ==
    [kind : {"Exact"}, a : 1..MaxDim, b : 1..MaxDim]
    \cup [kind : {"Percentage"}, a : Percents, b : {NoArg}]
    \cup [kind : {"Width", "Height"}, a : 1..(MaxDim + 1), b : {NoArg}]

\* main.rs:44-50: struct Config; the angles a user may enter
Angles == {0 - 90, 0, 45, 90, 180, 270, 360, 450}
Configs ==
    [resize : {None} \cup {Some(o) : o \in ResizeOptions},
     rotate : {None} \cup {Some(a) : a \in Angles},
     flip_horizontal : BOOLEAN, flip_vertical : BOOLEAN]
NoConfig ==
    [resize |-> None, rotate |-> None, flip_horizontal |-> FALSE,
     flip_vertical |-> FALSE]

\* a / b rounded to the nearest whole number, halves up (f64::round, a, b >= 0)
Round(a, b) == (2 * a + b) \div (2 * b)
Max(a, b) == IF a >= b THEN a ELSE b

\* image::DynamicImage::resize_exact: the result has the dimensions asked for, its
\* pixels are resampled
resize_exact(img, nwidth, nheight) ==
    [width |-> nwidth, height |-> nheight,
     px |-> [p \in Pos(nwidth, nheight) |-> <<"lanczos3", p[1], p[2]>>]]

\* image::DynamicImage::resize: the aspect ratio is preserved and the image is
\* scaled to the largest size that fits within nwidth x nheight: the smaller of
\* the two ratios scales both axes, each rounded and at least 1
resize_dimensions(width, height, nwidth, nheight) ==
    IF nwidth * height <= nheight * width
    THEN <<Max(Round(width * nwidth, width), 1), Max(Round(height * nwidth, width), 1)>>
    ELSE <<Max(Round(width * nheight, height), 1), Max(Round(height * nheight, height), 1)>>

resize(img, nwidth, nheight) ==
    LET d == resize_dimensions(img.width, img.height, nwidth, nheight)
    IN resize_exact(img, d[1], d[2])

\* image::DynamicImage::rotate90, rotate180, rotate270 (clockwise), fliph, flipv:
\* the pixel at <<x, y>> of the result is the source's pixel at ...
rotate90(img) ==
    [width |-> img.height, height |-> img.width,
     px |-> [p \in Pos(img.height, img.width) |->
                img.px[<<p[2], img.height - 1 - p[1]>>]]]
rotate180(img) ==
    [width |-> img.width, height |-> img.height,
     px |-> [p \in Pos(img.width, img.height) |->
                img.px[<<img.width - 1 - p[1], img.height - 1 - p[2]>>]]]
rotate270(img) ==
    [width |-> img.height, height |-> img.width,
     px |-> [p \in Pos(img.height, img.width) |->
                img.px[<<img.width - 1 - p[2], p[1]>>]]]
fliph(img) ==
    [width |-> img.width, height |-> img.height,
     px |-> [p \in Pos(img.width, img.height) |->
                img.px[<<img.width - 1 - p[1], p[2]>>]]]
flipv(img) ==
    [width |-> img.width, height |-> img.height,
     px |-> [p \in Pos(img.width, img.height) |->
                img.px[<<p[1], img.height - 1 - p[2]>>]]]

\* main.rs:91-105: resize_image; (x as f32 * percent / 100.0) as u32 truncates
resize_image(img, option) ==
    CASE option.kind = "Exact" -> resize_exact(img, option.a, option.b)
      [] option.kind = "Percentage" ->
            resize(img, (img.width * option.a) \div 100, (img.height * option.a) \div 100)
      [] option.kind = "Width" -> resize(img, option.a, img.height)
      [] option.kind = "Height" -> resize(img, img.width, option.a)

\* ------------------------------------------------------------------ Init
\* No call of process_image, and no output path, is being followed
NoPath == <<>>
TransformIdle == image = NoImage /\ image0 = NoImage /\ config = NoConfig /\ ipc = "idle"
PathingIdle ==
    path = NoPath /\ output_path = NoPath /\ preserve_formats = FALSE /\ opc = "idle"

Init ==
    /\ mainPc = "start"
    /\ existing_data = <<>> /\ seed_i = 0 /\ prior = {} /\ seeded = EmptyMap
    /\ \E n \in 0..NumFiles :
         /\ files = 1..n
         /\ fileDir \in Walks(n)
         /\ fstat = [f \in 1..n |-> "queued"]
    /\ preserve_filenames \in BOOLEAN
    /\ outRootExists \in BOOLEAN
    /\ label_to_class_index = EmptyMap
    /\ training_data = <<>>
    /\ processed_count = 0
    /\ mapLock = NoOne /\ dataLock = NoOne /\ countLock = NoOne
    /\ queue = {}
    /\ pc = [w \in Workers |-> "idle"]
    /\ cur = [w \in Workers |-> NoFile]
    /\ out_name = [w \in Workers |-> 0]
    /\ class_index = [w \in Workers |-> 0]
    /\ inserted = [l \in Labels |-> 0]
    /\ manifest_written = FALSE
    /\ TransformIdle
    /\ PathingIdle

\* ------------------------------------------------------------------ main
\* main.rs:346-348: the input root must be a directory
CheckInputDir ==
    /\ mainPc = "start"
    /\ \E is_dir \in BOOLEAN :
         mainPc' = IF is_dir THEN "read" ELSE "err_input"
    /\ UNCHANGED <<transform, pathing, inputs, seeding, outRootExists, label_to_class_index, training_data,
                   processed_count, locks, queue, pc, cur, out_name, class_index,
                   fstat, inserted, manifest_written>>

\* main.rs:149-156: no path, or no file at the path: the map stays empty;
\* otherwise the file is deserialized into existing_data, and a file that cannot
\* be opened or parsed panics main
OpenTrainingJson ==
    /\ mainPc = "read"
    /\ \/ /\ mainPc' \in {"seeded", "panicked"}
          /\ UNCHANGED <<existing_data, seed_i>>
       \/ \E m \in PriorManifests :
            /\ existing_data' = m
            /\ seed_i' = 1
            /\ mainPc' = "seed"
    /\ UNCHANGED <<transform, pathing, inputs, prior, seeded, outRootExists, label_to_class_index,
                   training_data, processed_count, locks, queue, pc, cur, out_name,
                   class_index, fstat, inserted, manifest_written>>

\* SeedEntry, were an entry skipped when its index is already in the map
SeedEntryUnlessIndexTaken ==
    /\ mainPc = "seed"
    /\ seed_i <= Len(existing_data)
    /\ label_to_class_index' =
         IF \E l \in DOMAIN label_to_class_index :
                label_to_class_index[l] = existing_data[seed_i].class_index
         THEN label_to_class_index
         ELSE OrInsert(label_to_class_index, existing_data[seed_i].labels,
                       existing_data[seed_i].class_index)
    /\ seed_i' = seed_i + 1
    /\ UNCHANGED <<mainPc, transform, pathing, inputs, existing_data, prior, seeded, outRootExists,
                   training_data, processed_count, locks, queue, pc, cur, out_name,
                   class_index, fstat, inserted, manifest_written>>

\* main.rs:157-161: one iteration of the loop over existing_data
SeedEntry ==
    /\ mainPc = "seed"
    /\ seed_i <= Len(existing_data)
    /\ label_to_class_index' =
         OrInsert(label_to_class_index, existing_data[seed_i].labels,
                  existing_data[seed_i].class_index)
    /\ seed_i' = seed_i + 1
    /\ UNCHANGED <<mainPc, transform, pathing, inputs, existing_data, prior, seeded, outRootExists,
                   training_data, processed_count, locks, queue, pc, cur, out_name,
                   class_index, fstat, inserted, manifest_written>>

\* main.rs:161-165: the loop has consumed existing_data; the map is returned
SeedReturn ==
    /\ mainPc = "seed"
    /\ seed_i > Len(existing_data)
    /\ existing_data' = <<>>
    /\ seed_i' = 0
    /\ seeded' = label_to_class_index
    /\ mainPc' = "seeded"
    /\ UNCHANGED <<transform, pathing, inputs, prior, outRootExists, label_to_class_index, training_data,
                   processed_count, locks, queue, pc, cur, out_name, class_index,
                   fstat, inserted, manifest_written>>

\* OpenTrainingJson, with the entries of the manifest recorded in prior
OpenTrainingJsonPrior ==
    /\ mainPc = "read"
    /\ \/ /\ mainPc' \in {"seeded", "panicked"}
          /\ UNCHANGED <<existing_data, seed_i, prior>>
       \/ \E m \in PriorManifests :
            /\ existing_data' = m
            /\ prior' = {m[i] : i \in DOMAIN m}
            /\ seed_i' = 1
            /\ mainPc' = "seed"
    /\ UNCHANGED <<transform, pathing, inputs, seeded, outRootExists, label_to_class_index,
                   training_data, processed_count, locks, queue, pc, cur, out_name,
                   class_index, fstat, inserted, manifest_written>>

\* main.rs:357 and 175-184: process_directory starts the walk and the pool
StartWalk ==
    /\ mainPc = "seeded"
    /\ queue' = files
    /\ mainPc' = "process"
    /\ UNCHANGED <<transform, pathing, inputs, seeding, outRootExists, label_to_class_index, training_data,
                   processed_count, locks, pc, cur, out_name, class_index, fstat,
                   inserted, manifest_written>>

\* ------------------------------------------- process_directory: a worker
\* The file a worker holds, and the label derived from it (main.rs:217-222)
LabelOf(w) == fileDir[cur[w]]

\* par_bridge: the walk is exhausted, the worker's job ends
Exhausted(w) ==
    /\ mainPc = "process"
    /\ pc[w] = "idle"
    /\ queue = {}
    /\ pc' = [pc EXCEPT ![w] = "finished"]
    /\ UNCHANGED <<mainPc, transform, pathing, inputs, seeding, outRootExists, label_to_class_index,
                   training_data, processed_count, locks, queue, cur, out_name,
                   class_index, fstat, inserted, manifest_written>>

\* main.rs:184-199: the closure's job for file f, whose extension is ext and which
\* image::open decodes or not: an ineligible or undecodable file is only logged
OpenFile(w, f, ext, decoded) ==
    /\ mainPc = "process"
    /\ pc[w] = "idle"
    /\ f \in queue
    /\ queue' = queue \ {f}
    /\ IF Eligible(ext) /\ decoded
       THEN /\ pc' = [pc EXCEPT ![w] = IF preserve_filenames THEN "mkdir" ELSE "name"]
            /\ cur' = [cur EXCEPT ![w] = f]
            /\ fstat' = [fstat EXCEPT ![f] = "opened"]
       ELSE /\ fstat' = [fstat EXCEPT ![f] =
                           IF Eligible(ext) THEN "undecodable" ELSE "ineligible"]
            /\ UNCHANGED <<pc, cur>>
    /\ UNCHANGED <<mainPc, transform, pathing, inputs, seeding, outRootExists, label_to_class_index,
                   training_data, processed_count, locks, out_name, class_index,
                   inserted, manifest_written>>

\* Open with the decode error logged but not acted on: the closure goes on
OpenIgnoringDecodeError(w) ==
    /\ mainPc = "process"
    /\ pc[w] = "idle"
    /\ \E f \in queue, ext \in FileExts, decoded \in BOOLEAN :
         /\ queue' = queue \ {f}
         /\ IF Eligible(ext)
            THEN /\ pc' = [pc EXCEPT ![w] = IF preserve_filenames THEN "mkdir" ELSE "name"]
                 /\ cur' = [cur EXCEPT ![w] = f]
                 /\ fstat' = [fstat EXCEPT ![f] = IF decoded THEN "opened" ELSE "undecodable"]
            ELSE /\ fstat' = [fstat EXCEPT ![f] = "ineligible"]
                 /\ UNCHANGED <<pc, cur>>
    /\ UNCHANGED <<mainPc, transform, pathing, inputs, seeding, outRootExists, label_to_class_index,
                   training_data, processed_count, locks, out_name, class_index,
                   inserted, manifest_written>>

\* main.rs:179-199 and 248-252: the worker takes the next entry of the walk and runs
\* the closure on it. A file with no extension, or with one that is not allowed, is
\* left alone; otherwise image::open: on success the image is transformed and the
\* output path is mirrored, on failure the error is logged and the closure returns
Open(w) ==
    \E f \in queue, ext \in FileExts, decoded \in BOOLEAN : OpenFile(w, f, ext, decoded)

\* main.rs:200-206: the new filename is the counter's current value; the guard of
\* processed_count.lock() is a temporary of the format! statement
NameFile(w) ==
    /\ pc[w] = "name"
    /\ countLock = NoOne
    /\ out_name' = [out_name EXCEPT ![w] = processed_count]
    /\ pc' = [pc EXCEPT ![w] = "mkdir"]
    /\ UNCHANGED <<mainPc, transform, pathing, inputs, seeding, outRootExists, label_to_class_index, training_data,
                   processed_count, locks, queue, cur, class_index, fstat, inserted,
                   manifest_written>>

\* main.rs:207-209: fs::create_dir_all(parent).expect(..): a failure panics
CreateDir(w) ==
    /\ pc[w] = "mkdir"
    /\ \E created \in BOOLEAN :
         IF created
         THEN /\ outRootExists' = TRUE
              /\ pc' = [pc EXCEPT ![w] = "save"]
              /\ UNCHANGED fstat
         ELSE /\ pc' = [pc EXCEPT ![w] = "panicked"]
              /\ fstat' = [fstat EXCEPT ![cur[w]] = "mkdir_failed"]
              /\ UNCHANGED outRootExists
    /\ UNCHANGED <<mainPc, transform, pathing, inputs, seeding, label_to_class_index, training_data,
                   processed_count, locks, queue, cur, out_name, class_index, inserted,
                   manifest_written>>

\* main.rs:210-215: save_image; an Err is logged and the closure goes on
Save(w) ==
    /\ pc[w] = "save"
    /\ \E saved \in BOOLEAN :
         fstat' = [fstat EXCEPT ![cur[w]] = IF saved THEN "written" ELSE "unsaved"]
    /\ pc' = [pc EXCEPT ![w] = "lock_map"]
    /\ UNCHANGED <<mainPc, transform, pathing, inputs, seeding, outRootExists, label_to_class_index, training_data,
                   processed_count, locks, queue, cur, out_name, class_index, inserted,
                   manifest_written>>

\* LockLabelMap without the presence check: the label is inserted in any case
LockLabelMapNoCheck(w) ==
    /\ pc[w] = "lock_map"
    /\ mapLock = NoOne
    /\ mapLock' = w
    /\ pc' = [pc EXCEPT ![w] = "insert"]
    /\ UNCHANGED <<mainPc, transform, pathing, inputs, seeding, outRootExists, label_to_class_index,
                   training_data, processed_count, dataLock, countLock, queue, cur,
                   out_name, class_index, fstat, inserted, manifest_written>>

\* LockLabelMap without mutual exclusion: the presence check is made without
\* waiting for the holder of the mutex
LockLabelMapRacy(w) ==
    /\ pc[w] = "lock_map"
    /\ mapLock' = w
    /\ pc' = [pc EXCEPT ![w] = IF LabelOf(w) \in DOMAIN label_to_class_index
                               THEN "get" ELSE "insert"]
    /\ UNCHANGED <<mainPc, transform, pathing, inputs, seeding, outRootExists, label_to_class_index,
                   training_data, processed_count, dataLock, countLock, queue, cur,
                   out_name, class_index, fstat, inserted, manifest_written>>

\* main.rs:230-231: label_to_class_index.lock(), then, under the guard,
\* if !label_map.contains_key(&label)
LockLabelMap(w) ==
    /\ pc[w] = "lock_map"
    /\ mapLock = NoOne
    /\ mapLock' = w
    /\ pc' = [pc EXCEPT ![w] = IF LabelOf(w) \in DOMAIN label_to_class_index
                               THEN "get" ELSE "insert"]
    /\ UNCHANGED <<mainPc, transform, pathing, inputs, seeding, outRootExists, label_to_class_index,
                   training_data, processed_count, dataLock, countLock, queue, cur,
                   out_name, class_index, fstat, inserted, manifest_written>>

\* InsertNew, were the index handed out the map's size after the insertion
InsertNewSizeAfter(w) ==
    /\ pc[w] = "insert"
    /\ label_to_class_index' =
         MapInsert(label_to_class_index, LabelOf(w),
                   Cardinality(DOMAIN label_to_class_index))
    /\ inserted' = [inserted EXCEPT ![LabelOf(w)] = @ + 1]
    /\ class_index' = [class_index EXCEPT ![w] = Cardinality(DOMAIN label_to_class_index')]
    /\ mapLock' = NoOne
    /\ pc' = [pc EXCEPT ![w] = "push"]
    /\ UNCHANGED <<mainPc, transform, pathing, inputs, seeding, outRootExists, training_data,
                   processed_count, dataLock, countLock, queue, cur, out_name, fstat,
                   manifest_written>>

\* InsertNew, were the new index one-based
InsertNewOneBased(w) ==
    /\ pc[w] = "insert"
    /\ label_to_class_index' =
         MapInsert(label_to_class_index, LabelOf(w),
                   Cardinality(DOMAIN label_to_class_index) + 1)
    /\ inserted' = [inserted EXCEPT ![LabelOf(w)] = @ + 1]
    /\ class_index' = [class_index EXCEPT ![w] = label_to_class_index'[LabelOf(w)]]
    /\ mapLock' = NoOne
    /\ pc' = [pc EXCEPT ![w] = "push"]
    /\ UNCHANGED <<mainPc, transform, pathing, inputs, seeding, outRootExists, training_data,
                   processed_count, dataLock, countLock, queue, cur, out_name, fstat,
                   manifest_written>>

\* main.rs:232-236: new_index = label_map.len(); label_map.insert(label, new_index);
\* then *label_map.get(&label).unwrap(), and the guard drops with the block
InsertNew(w) ==
    /\ pc[w] = "insert"
    /\ label_to_class_index' =
         MapInsert(label_to_class_index, LabelOf(w),
                   Cardinality(DOMAIN label_to_class_index))
    /\ inserted' = [inserted EXCEPT ![LabelOf(w)] = @ + 1]
    /\ class_index' = [class_index EXCEPT ![w] = label_to_class_index'[LabelOf(w)]]
    /\ mapLock' = NoOne
    /\ pc' = [pc EXCEPT ![w] = "push"]
    /\ UNCHANGED <<mainPc, transform, pathing, inputs, seeding, outRootExists, training_data,
                   processed_count, dataLock, countLock, queue, cur, out_name, fstat,
                   manifest_written>>

\* GetIndex, were the guard of the registry kept to the end of the closure
GetIndexKeepingGuard(w) ==
    /\ pc[w] = "get"
    /\ class_index' = [class_index EXCEPT ![w] = label_to_class_index[LabelOf(w)]]
    /\ pc' = [pc EXCEPT ![w] = "push"]
    /\ UNCHANGED <<mainPc, transform, pathing, inputs, seeding, outRootExists, label_to_class_index,
                   training_data, processed_count, locks, queue, cur,
                   out_name, fstat, inserted, manifest_written>>

\* main.rs:235-236: the label is there: *label_map.get(&label).unwrap(), and the
\* guard drops with the block
GetIndex(w) ==
    /\ pc[w] = "get"
    /\ class_index' = [class_index EXCEPT ![w] = label_to_class_index[LabelOf(w)]]
    /\ mapLock' = NoOne
    /\ pc' = [pc EXCEPT ![w] = "push"]
    /\ UNCHANGED <<mainPc, transform, pathing, inputs, seeding, outRootExists, label_to_class_index,
                   training_data, processed_count, dataLock, countLock, queue, cur,
                   out_name, fstat, inserted, manifest_written>>

\* PushRecord keeping only the newest record
PushRecordReplacing(w) ==
    /\ pc[w] = "push"
    /\ dataLock = NoOne
    /\ dataLock' = w
    /\ training_data' = <<Record(cur[w], w)>>
    /\ pc' = [pc EXCEPT ![w] = "count"]
    /\ UNCHANGED <<mainPc, transform, pathing, inputs, seeding, outRootExists, label_to_class_index,
                   processed_count, mapLock, countLock, queue, cur, out_name,
                   class_index, fstat, inserted, manifest_written>>

\* PushRecord with the guard of training_data dropped right after the push, before
\* the counter is locked
PushRecordUnnested(w) ==
    /\ pc[w] = "push"
    /\ dataLock = NoOne
    /\ dataLock' = NoOne
    /\ training_data' = Append(training_data, Record(cur[w], w))
    /\ pc' = [pc EXCEPT ![w] = "count"]
    /\ UNCHANGED <<mainPc, transform, pathing, inputs, seeding, outRootExists, label_to_class_index,
                   processed_count, mapLock, countLock, queue, cur, out_name,
                   class_index, fstat, inserted, manifest_written>>

\* main.rs:238-244: training_data.lock(), then data.push(TrainingData { .. })
PushRecord(w) ==
    /\ pc[w] = "push"
    /\ dataLock = NoOne
    /\ dataLock' = w
    /\ training_data' = Append(training_data, Record(cur[w], w))
    /\ pc' = [pc EXCEPT ![w] = "count"]
    /\ UNCHANGED <<mainPc, transform, pathing, inputs, seeding, outRootExists, label_to_class_index,
                   processed_count, mapLock, countLock, queue, cur, out_name,
                   class_index, fstat, inserted, manifest_written>>

\* main.rs:246-247: processed_count.lock(), with the guard of training_data still
\* held, then *count += 1
CountFile(w) ==
    /\ pc[w] = "count"
    /\ countLock = NoOne
    /\ countLock' = w
    /\ processed_count' = processed_count + 1
    /\ pc' = [pc EXCEPT ![w] = "drop"]
    /\ UNCHANGED <<mainPc, transform, pathing, inputs, seeding, outRootExists, label_to_class_index,
                   training_data, mapLock, dataLock, queue, cur, out_name, class_index,
                   fstat, inserted, manifest_written>>

\* main.rs:248: the scope ends: the guards count and data drop, and the closure's
\* locals with them
DropGuards(w) ==
    /\ pc[w] = "drop"
    /\ countLock' = NoOne
    /\ dataLock' = NoOne
    /\ cur' = [cur EXCEPT ![w] = NoFile]
    /\ out_name' = [out_name EXCEPT ![w] = 0]
    /\ class_index' = [class_index EXCEPT ![w] = 0]
    /\ pc' = [pc EXCEPT ![w] = "idle"]
    /\ UNCHANGED <<mainPc, transform, pathing, inputs, seeding, outRootExists, label_to_class_index,
                   training_data, processed_count, mapLock, queue, fstat, inserted,
                   manifest_written>>

\* --------------------------------------------------- the end of the run
\* main.rs:253-266: for_each returns when every job has ended; a job's panic is
\* resumed in the caller, otherwise the counter and the vector are unwrapped
Join ==
    /\ mainPc = "process"
    /\ \A w \in Workers : pc[w] \in {"finished", "panicked"}
    /\ mainPc' = IF \E w \in Workers : pc[w] = "panicked" THEN "panicked" ELSE "returned"
    /\ UNCHANGED <<transform, pathing, inputs, seeding, outRootExists, label_to_class_index, training_data,
                   processed_count, locks, queue, pc, cur, out_name, class_index,
                   fstat, inserted, manifest_written>>

\* main.rs:367-369 and 384: File::create(output_dir.join("training_data.json"))?
\* fails when output_dir does not exist
WriteManifest ==
    /\ mainPc = "returned"
    /\ IF outRootExists
       THEN /\ manifest_written' = TRUE
            /\ mainPc' = "ok"
       ELSE /\ mainPc' = "err_manifest"
            /\ UNCHANGED manifest_written
    /\ UNCHANGED <<transform, pathing, inputs, seeding, outRootExists, label_to_class_index, training_data,
                   processed_count, locks, queue, pc, cur, out_name, class_index,
                   fstat, inserted>>

MainStep ==
    \/ CheckInputDir
    \/ SeedEntry
    \/ SeedReturn
    \/ StartWalk
    \/ Join
    \/ WriteManifest

\* The closure's steps, but for the renaming of the output file
ClosureStep(w) ==
    \/ Open(w)
    \/ Exhausted(w)
    \/ CreateDir(w)
    \/ Save(w)
    \/ LockLabelMap(w)
    \/ InsertNew(w)
    \/ GetIndex(w)
    \/ PushRecord(w)
    \/ CountFile(w)
    \/ DropGuards(w)

WorkerStep(w) ==
    \/ NameFile(w)
    \/ ClosureStep(w)

Next ==
    \/ OpenTrainingJson
    \/ MainStep
    \/ \E w \in Workers : WorkerStep(w)

Spec == Init /\ [][Next]_vars

\* The runs that preserve the filenames, with the prior manifest's entries kept as
\* history
InitPrior == Init /\ preserve_filenames

NextPrior ==
    \/ OpenTrainingJsonPrior
    \/ MainStep
    \/ \E w \in Workers : ClosureStep(w)

SpecPrior == InitPrior /\ [][NextPrior]_vars

\* The run's variables while one call of a function is followed on its own
NoRun ==
    /\ mainPc = "start"
    /\ existing_data = <<>> /\ seed_i = 0 /\ prior = {} /\ seeded = EmptyMap
    /\ files = {} /\ fileDir = <<>> /\ fstat = <<>>
    /\ outRootExists = FALSE
    /\ label_to_class_index = EmptyMap
    /\ training_data = <<>>
    /\ mapLock = NoOne /\ dataLock = NoOne /\ countLock = NoOne
    /\ queue = {}
    /\ pc = [w \in Workers |-> "idle"]
    /\ cur = [w \in Workers |-> NoFile]
    /\ out_name = [w \in Workers |-> 0]
    /\ class_index = [w \in Workers |-> 0]
    /\ inserted = [l \in Labels |-> 0]
    /\ manifest_written = FALSE

\* ------------------------------------------------------- process_image
\* main.rs:107-113: the resize step
ResizeStep ==
    /\ ipc = "resize"
    /\ image' = IF config.resize # None
                THEN resize_image(image, Unwrap(config.resize)) ELSE image
    /\ ipc' = "rotate"
    /\ UNCHANGED <<image0, config, pathing, run>>

\* RotateStep, were the angle taken modulo 360
RotateStepModulo ==
    /\ ipc = "rotate"
    /\ image' = IF config.rotate = None THEN image
                ELSE CASE Unwrap(config.rotate) % 360 = 90 -> rotate90(image)
                       [] Unwrap(config.rotate) % 360 = 180 -> rotate180(image)
                       [] Unwrap(config.rotate) % 360 = 270 -> rotate270(image)
                       [] OTHER -> image
    /\ ipc' = "fliph"
    /\ UNCHANGED <<image0, config, pathing, run>>

\* main.rs:115-123: the rotate step: an angle other than 90, 180, 270 is reported
\* on stderr
RotateStep ==
    /\ ipc = "rotate"
    /\ image' = IF config.rotate = None THEN image
                ELSE CASE Unwrap(config.rotate) = 90 -> rotate90(image)
                       [] Unwrap(config.rotate) = 180 -> rotate180(image)
                       [] Unwrap(config.rotate) = 270 -> rotate270(image)
                       [] OTHER -> image
    /\ ipc' = "fliph"
    /\ UNCHANGED <<image0, config, pathing, run>>

\* main.rs:125-128
FlipHStep ==
    /\ ipc = "fliph"
    /\ image' = IF config.flip_horizontal THEN fliph(image) ELSE image
    /\ ipc' = "flipv"
    /\ UNCHANGED <<image0, config, pathing, run>>

\* main.rs:130-135: the last step, and the image is returned
FlipVStep ==
    /\ ipc = "flipv"
    /\ image' = IF config.flip_vertical THEN flipv(image) ELSE image
    /\ ipc' = "return"
    /\ UNCHANGED <<image0, config, pathing, run>>

NextImage == ResizeStep \/ RotateStep \/ FlipHStep \/ FlipVStep

\* main.rs:107: process_image is called with a decoded image and a Config
InitImage ==
    /\ NoRun
    /\ preserve_filenames = FALSE
    /\ processed_count = 0
    /\ PathingIdle
    /\ image0 \in SourceImages
    /\ image = image0
    /\ config \in Configs
    /\ ipc = "resize"

SpecImage == InitImage /\ [][NextImage]_vars

\* ------------------------------------------------- the output path
\* The relative paths of eligible files: the directories below input_dir, the
\* file stem and the extension
Parents == {"", "cats", "cats/tabby"}
Stems == {"a", "b"}
EligibleExts == {ext \in FileExts : Eligible(ext)}
RelPaths == [parent : Parents, stem : Stems, ext : EligibleExts]

\* main.rs:195-196: relative_path = path.strip_prefix(input_dir);
\* output_path = output_dir.join(relative_path)
JoinOutput ==
    /\ opc = "join"
    /\ output_path' = [root |-> "output_dir", parent |-> path.parent,
                       stem |-> path.stem, ext |-> path.ext]
    /\ opc' = "set_extension"
    /\ UNCHANGED <<path, preserve_formats, transform, run>>

\* main.rs:197-199: if !cli.preserve_formats { output_path.set_extension("png") }
SetExtension ==
    /\ opc = "set_extension"
    /\ output_path' = IF ~preserve_formats
                      THEN [output_path EXCEPT !.ext = "png"] ELSE output_path
    /\ opc' = "filename"
    /\ UNCHANGED <<path, preserve_formats, transform, run>>

\* main.rs:200-206: if !cli.preserve_filenames the file name becomes
\* format!("{}.png", processed_count) under the same parent
ReplaceFilename ==
    /\ opc = "filename"
    /\ output_path' = IF ~preserve_filenames
                      THEN [output_path EXCEPT !.stem = ToString(processed_count),
                                               !.ext = "png"]
                      ELSE output_path
    /\ opc' = "done"
    /\ UNCHANGED <<path, preserve_formats, transform, run>>

NextPath == JoinOutput \/ SetExtension \/ ReplaceFilename

\* One eligible file, the two flags, and the counter's value when it is read
InitPath ==
    /\ NoRun
    /\ preserve_filenames \in BOOLEAN
    /\ processed_count \in 0..MaxCount
    /\ TransformIdle
    /\ path \in RelPaths
    /\ output_path = NoPath
    /\ preserve_formats \in BOOLEAN
    /\ opc = "join"

SpecPath == InitPath /\ [][NextPath]_vars

\* ------------------------------------------------------------ the claims
Range(seq) == {seq[i] : i \in DOMAIN seq}

\* The workers whose closure has resolved its class index (past main.rs:236)
Resolved == {w \in Workers : pc[w] \in {"push", "count", "drop"}}

\* The <<label, index>> pairs the run has handed out: to a record, or to a worker
\* that has not pushed its record yet
HandedOut ==
    {<<r.labels, r.class_index>> : r \in Range(training_data)}
    \cup {<<LabelOf(w), class_index[w]>> : w \in Resolved}

\* C1 (Uniqueness): the index the run assigns to a newly seen label is used by no
\* other label of the registry, whatever prior manifest seeded it: no two distinct
\* labels, one of them assigned during the run, share a class index.
C1_Uniqueness ==
    \A l, m \in DOMAIN label_to_class_index :
        (l # m /\ (inserted[l] > 0 \/ inserted[m] > 0))
            => label_to_class_index[l] # label_to_class_index[m]

\* C2 (Atomic get-or-assign): a label is inserted at most once per run, never over
\* an entry that is already there, and all workers that resolve the same label
\* obtain the same index, the one the registry holds.
C2_AtomicGetOrAssign ==
    /\ \A l \in Labels : inserted[l] <= 1
    /\ \A l \in DOMAIN seeded : inserted[l] = 0
    /\ \A p, q \in HandedOut : p[1] = q[1] => p[2] = q[2]
    /\ \A p \in HandedOut :
          p[1] \in DOMAIN label_to_class_index /\ label_to_class_index[p[1]] = p[2]

\* Two workers have both resolved the same label, which was absent before the run
C2_Witness ==
    \E w1, w2 \in Resolved :
        /\ w1 # w2
        /\ LabelOf(w1) = LabelOf(w2)
        /\ LabelOf(w1) \notin DOMAIN seeded
        /\ inserted[LabelOf(w1)] = 1

\* The position in a manifest of the first entry for a label
FirstEntry(data, l) ==
    CHOOSE i \in DOMAIN data :
        data[i].labels = l /\ \A j \in 1..(i - 1) : data[j].labels # l

\* C3 as claimed: if the prior manifest contains label L at index k, every record
\* with label L carries class index k.
C3_PriorIndexKept ==
    \A e \in prior : \A r \in Range(training_data) :
        r.labels = e.labels => r.class_index = e.class_index

\* C3 (Stability), amended: no step changes the index of a label of the registry or
\* removes the label; the seeding loop gives a label the index of its first entry
\* in the prior manifest; and every index handed out for a seeded label (to a
\* record, or to a worker about to push one) is that seeded index.
C3_Stability ==
    /\ [][\A l \in DOMAIN label_to_class_index :
             /\ l \in DOMAIN label_to_class_index'
             /\ label_to_class_index'[l] = label_to_class_index[l]]_vars
    /\ [](mainPc = "seed" =>
             \A i \in 1..(seed_i - 1) :
                 LET l == existing_data[i].labels
                 IN /\ l \in DOMAIN label_to_class_index
                    /\ label_to_class_index[l] =
                          existing_data[FirstEntry(existing_data, l)].class_index)
    /\ [](\A p \in HandedOut : p[1] \in DOMAIN seeded => p[2] = seeded[p[1]])

\* A record carries the index of its label's first manifest entry although the
\* manifest also holds the label at another index, and although the run has
\* assigned an index to a new label
C3_Witness ==
    \E r \in Range(training_data) :
        /\ r.labels \in DOMAIN seeded
        /\ r.class_index = seeded[r.labels]
        /\ \E e \in prior : e.labels = r.labels /\ e.class_index # r.class_index
        /\ \E l \in Labels : inserted[l] = 1

\* The records a file has contributed
RecordsOf(f) == {i \in DOMAIN training_data : training_data[i].src = f}

\* The files that were decoded and went through the whole closure
Decoded == {f \in files : fstat[f] \in {"written", "unsaved"}}

\* process_directory has returned its vector to main
Returned == mainPc \in {"returned", "ok", "err_manifest"}

\* C4 (Completeness for successes): no file ever has two records, and when
\* process_directory returns, every file that was decoded and written has exactly
\* one record in the returned collection.
C4_ExactlyOneRecord ==
    /\ \A f \in files : Cardinality(RecordsOf(f)) <= 1
    /\ Returned =>
          \A f \in files : fstat[f] = "written" => Cardinality(RecordsOf(f)) = 1

\* process_directory has returned and every one of NumFiles files was written
C4_Witness ==
    /\ mainPc = "returned"
    /\ Cardinality(files) = NumFiles
    /\ \A f \in files : fstat[f] = "written"

\* C5 (Write failure is skipped): a file whose save failed has no record, and the
\* counter of a finished run counts the written files only.
C5_WriteFailureSkipped ==
    /\ \A f \in files : fstat[f] = "unsaved" => RecordsOf(f) = {}
    /\ Returned =>
          processed_count = Cardinality({f \in files : fstat[f] = "written"})

\* C6 (Decode failure is skipped): the step in which a file fails to decode leaves
\* the registry, the records and the counter as they are; the file never has a
\* record and no worker goes on with it; and when process_directory returns, every
\* file has been dealt with, the counter counts the decoded files only, and the
\* label of an undecodable file is in the registry only if the seed or a decoded
\* file put it there.
C6_DecodeFailureSkipped ==
    /\ [][(\E f \in files : fstat[f] # "undecodable" /\ fstat'[f] = "undecodable")
            => UNCHANGED <<label_to_class_index, training_data, processed_count,
                           inserted>>]_vars
    /\ [](\A f \in files : fstat[f] = "undecodable" =>
             /\ RecordsOf(f) = {}
             /\ \A w \in Workers : cur[w] # f)
    /\ [](Returned =>
             /\ \A f \in files : fstat[f] \notin {"queued", "opened"}
             /\ processed_count = Cardinality(Decoded)
             /\ \A f \in files :
                   (fstat[f] = "undecodable" /\ fileDir[f] \in DOMAIN label_to_class_index)
                      => \/ fileDir[f] \in DOMAIN seeded
                         \/ \E g \in Decoded : fileDir[g] = fileDir[f])

\* A finished run in which one file failed to decode, its label stayed out of the
\* registry, and another file was processed
C6_Witness ==
    /\ mainPc = "returned"
    /\ \E f, g \in files :
          /\ fstat[f] = "undecodable"
          /\ fileDir[f] \notin DOMAIN label_to_class_index
          /\ fstat[g] = "written"
          /\ RecordsOf(g) # {}

\* C7 (Failure isolation for filesystem errors): a failure to create the output
\* directory of one file does not abort the run.
C7_MkdirFailureContained ==
    (\E f \in files : fstat[f] = "mkdir_failed") => mainPc # "panicked"

\* C8 (Manifest always written): a run whose input root exists and in which no
\* file's directory creation failed ends with the manifest written and no error;
\* and the manifest is written only after all workers have finished.
C8_ManifestAlwaysWritten ==
    /\ (\A f \in files : fstat[f] # "mkdir_failed") => mainPc # "err_manifest"
    /\ mainPc = "ok" => manifest_written
    /\ manifest_written => \A w \in Workers : pc[w] = "finished"

\* C9 (Concurrency safety): whatever the interleaving, when process_directory
\* returns the registry holds exactly the seeded labels and the parent-directory
\* names of the decoded files, and the seeded labels have their seeded indices.
C9_SameFinalRegistry ==
    Returned =>
        /\ DOMAIN label_to_class_index =
              DOMAIN seeded \cup {fileDir[f] : f \in Decoded}
        /\ \A l \in DOMAIN seeded : label_to_class_index[l] = seeded[l]

\* A finished run of two workers' files in which the label that comes second in
\* LabelSeq was seen first: the new labels' indices depend on the interleaving
C9_Witness ==
    /\ mainPc = "returned"
    /\ DOMAIN seeded = {}
    /\ DOMAIN label_to_class_index = Labels
    /\ label_to_class_index[LabelSeq[2]] = 0

\* C10 (No lost updates): no step shrinks or rewrites the record collection or
\* lowers the counter; whenever no worker holds the lock of the collection the
\* counter equals the collection's length; and when process_directory returns both
\* equal the number of decoded files.
C10_NoLostUpdates ==
    /\ [][/\ Len(training_data') >= Len(training_data)
          /\ SubSeq(training_data', 1, Len(training_data)) = training_data
          /\ processed_count' >= processed_count]_vars
    /\ [](dataLock = NoOne => processed_count = Len(training_data))
    /\ [](Returned =>
             /\ processed_count = Len(training_data)
             /\ Len(training_data) = Cardinality(Decoded))

\* A worker has appended a record and not counted it yet, while another worker
\* waits for the lock of the collection to append its own
C10_Witness ==
    \E w1, w2 \in Workers :
        /\ pc[w1] = "count" /\ dataLock = w1
        /\ pc[w2] = "push"
        /\ Len(training_data) = processed_count + 1

\* The map first-occurrence-wins seeding builds from a manifest
FirstWins(data) ==
    [l \in {data[i].labels : i \in DOMAIN data} |->
        data[FirstEntry(data, l)].class_index]

\* C11 (Seeding, first occurrence wins): when read_existing_training_data returns
\* after reading a manifest, the registry holds exactly the distinct labels of the
\* manifest, each at the class index of its first entry in manifest order; when it
\* returns without a manifest, the registry is empty.
C11_FirstOccurrenceWins ==
    [][/\ (mainPc = "seed" /\ mainPc' = "seeded")
            => label_to_class_index' = FirstWins(existing_data)
       /\ (mainPc = "read" /\ mainPc' = "seeded")
            => label_to_class_index' = EmptyMap]_vars

\* The seeding loop has consumed a manifest whose two entries give the same label
\* two indices, and the registry holds the first
C11_Witness ==
    /\ mainPc = "seed"
    /\ seed_i > Len(existing_data)
    /\ \E i, j \in DOMAIN existing_data :
          /\ i < j
          /\ existing_data[i].labels = existing_data[j].labels
          /\ existing_data[i].class_index # existing_data[j].class_index
          /\ label_to_class_index[existing_data[i].labels] = existing_data[i].class_index

\* The workers whose closure has not resolved the class index of its file yet
Unresolved == {w \in Workers : pc[w] \in {"name", "mkdir", "save", "lock_map",
                                          "get", "insert"}}

\* C12 (Record/registry consistency): every record of the collection has a label
\* of the registry and the registry's index for it, its label is the name of its
\* input file's parent directory, its dataset is the output root's base name, and
\* no file has a record while its worker has still to resolve its class index.
C12_RecordConsistency ==
    \A r \in Range(training_data) :
        /\ r.labels \in DOMAIN label_to_class_index
        /\ r.class_index = label_to_class_index[r.labels]
        /\ r.labels = fileDir[r.src]
        /\ r.dataset = Dataset
        /\ \A w \in Unresolved : cur[w] # r.src

\* A record of a label the run has assigned an index to, while another worker
\* holds a file of the same label and has still to resolve its class index
C12_Witness ==
    \E r \in Range(training_data) : \E w \in Unresolved :
        /\ inserted[r.labels] = 1
        /\ LabelOf(w) = r.labels

\* The indices a map uses, and whether they are exactly 0..m-1 for its m labels
IndicesOf(m) == {m[l] : l \in DOMAIN m}
IsDense(m) == IndicesOf(m) = 0..(Cardinality(DOMAIN m) - 1)

\* The labels the run has inserted so far
NewLabels == {l \in Labels : inserted[l] > 0}

\* C13 (Dense zero-based indices): in a run whose registry starts empty or seeded
\* with indices exactly 0..m-1, once the registry is built its indices are exactly
\* 0..n-1 for its n labels in every state, and the k-th label to be inserted under
\* the registry lock receives m + k - 1.
C13_DenseIndices ==
    /\ []((mainPc # "seed" /\ IsDense(seeded)) => IsDense(label_to_class_index))
    /\ [][(mainPc = "process" /\ IsDense(seeded)) =>
             \A l \in Labels :
                 (l \notin DOMAIN label_to_class_index
                      /\ l \in DOMAIN label_to_class_index')
                 => label_to_class_index'[l] =
                       Cardinality(DOMAIN seeded) + Cardinality(NewLabels)]_vars

\* The registry was seeded with one label at index 0 and the run has given the
\* other label index 1
C13_Witness ==
    /\ Cardinality(DOMAIN seeded) = 1
    /\ IsDense(seeded)
    /\ \E l \in NewLabels : label_to_class_index[l] = 1

\* The locks a worker holds
Held(w) ==
    {k \in {"map", "data", "count"} :
        \/ k = "map" /\ mapLock = w
        \/ k = "data" /\ dataLock = w
        \/ k = "count" /\ countLock = w}

\* C14 as claimed: the critical sections of a worker are sequential and non-nested:
\* a worker holds at most one lock at a time.
C14_NonNested == \A w \in Workers : Cardinality(Held(w)) <= 1

\* C14 (Lock discipline), amended: a worker holds the registry lock only between
\* its presence check and its get, never together with the lock of the collection
\* or of the counter, and has released it when it requests either; it holds no
\* lock while it decodes, transforms, creates directories or writes the image; the
\* counter's critical section is nested in the collection's.
C14_LockDiscipline ==
    \A w \in Workers :
        /\ "map" \in Held(w) <=> pc[w] \in {"get", "insert"}
        /\ "map" \in Held(w) => Held(w) = {"map"}
        /\ pc[w] \in {"push", "count", "drop"} => "map" \notin Held(w)
        /\ pc[w] \in {"idle", "name", "mkdir", "save", "lock_map", "finished",
                      "panicked"} => Held(w) = {}
        /\ "data" \in Held(w) <=> pc[w] \in {"count", "drop"}
        /\ "count" \in Held(w) <=> pc[w] = "drop"

\* One worker is inside the registry's critical section while another holds the
\* locks of the collection and of the counter
C14_Witness ==
    \E w1, w2 \in Workers :
        /\ Held(w1) = {"map"}
        /\ Held(w2) = {"data", "count"}

\* C15 (Distinct sequential output names): when the counter replaces the
\* filenames, no two records of the collection carry the same output path, that
\* is, no two files of one output directory were given the same name.
C15_DistinctOutputNames ==
    ~preserve_filenames =>
        \A i, j \in DOMAIN training_data :
            i # j => training_data[i].filepaths # training_data[j].filepaths

\* The lock a worker is about to request, if any
Requests(w) ==
    CASE pc[w] \in {"name", "count"} -> {"count"}
      [] pc[w] = "lock_map" -> {"map"}
      [] pc[w] = "push" -> {"data"}
      [] OTHER -> {}

\* w1 waits for a lock that w2 holds
WaitsFor(w1, w2) == w1 # w2 /\ Requests(w1) \cap Held(w2) # {}

\* No two workers wait for each other, and a worker that holds the counter lock
\* requests no lock
C16_LockOrder ==
    /\ \A w1, w2 \in Workers : ~(WaitsFor(w1, w2) /\ WaitsFor(w2, w1))
    /\ \A w \in Workers : "count" \in Held(w) => Requests(w) = {}

\* Every job of the pool has ended
AllEnded == \A w \in Workers : pc[w] \in {"finished", "panicked"}

\* C16 (Deadlock freedom and termination): no two workers wait on each other's
\* locks, a worker that holds the counter lock requests no other lock, and when
\* the jobs of the pool have ended every worker has finished every file: all
\* workers have joined normally, no file is left unprocessed and the three locks
\* are free.
C16_DeadlockFreeTermination ==
    /\ C16_LockOrder
    /\ AllEnded =>
          /\ \A w \in Workers : pc[w] = "finished"
          /\ \A f \in files : fstat[f] \notin {"queued", "opened", "mkdir_failed"}
          /\ mapLock = NoOne /\ dataLock = NoOne /\ countLock = NoOne

\* The extensions of FileExts that spell an allowed extension in some letter case
AnyCaseAllowed == {"png", "Png", "JPG"}

\* What an ineligible file must leave alone: the registry, the collection, the
\* counter, the output tree, and every worker's position and file
NoEffect ==
    UNCHANGED <<label_to_class_index, inserted, training_data, processed_count,
                outRootExists, pc, cur, out_name, class_index, locks>>

\* C17 (Ineligible files have no effect): the job of a file with no extension, or
\* with an extension that is no letter-case variant of png, jpg, jpeg, marks the
\* file ineligible and changes nothing else, and the file never gets a record or a
\* worker; the job of a file whose extension matches in any letter case goes on
\* to decode it.
C17_IneligibleNoEffect ==
    /\ [][queue' # queue =>
             \A f \in queue \ queue', ext \in FileExts, decoded \in BOOLEAN :
                 \/ IF ext \in AnyCaseAllowed
                    THEN fstat'[f] = (IF decoded THEN "opened" ELSE "undecodable")
                    ELSE fstat'[f] = "ineligible" /\ NoEffect
                 \/ \A w \in Workers : ~OpenFile(w, f, ext, decoded)]_vars
    /\ [](\A f \in files : fstat[f] = "ineligible" =>
             /\ RecordsOf(f) = {}
             /\ \A w \in Workers : cur[w] # f)
    /\ [](Returned => processed_count =
             Cardinality({f \in files : fstat[f] \notin {"ineligible", "undecodable"}}))

\* A finished run over a file that was not eligible and a file that was: only the
\* second has a record and an output directory
C17_Witness ==
    /\ mainPc = "returned"
    /\ \E f, g \in files :
          /\ fstat[f] = "ineligible"
          /\ fileDir[f] \notin DOMAIN label_to_class_index
          /\ fstat[g] = "written"
          /\ RecordsOf(g) # {}
    /\ processed_count = 1

\* The angles that rotate
ValidAngles == {90, 180, 270}
InvalidAngle(cfg) == cfg.rotate # None /\ Unwrap(cfg.rotate) \notin ValidAngles

\* A configuration with its rotation taken out
WithoutRotation(cfg) == [cfg EXCEPT !.rotate = None]

\* The steps of a configuration applied in the order resize, rotate, flip
\* horizontally, flip vertically; the rotation is absent or one of ValidAngles
InOrder(img, cfg) ==
    LET resized == IF cfg.resize = None THEN img
                   ELSE resize_image(img, Unwrap(cfg.resize))
        rotated == CASE cfg.rotate = None -> resized
                     [] cfg.rotate = Some(90) -> rotate90(resized)
                     [] cfg.rotate = Some(180) -> rotate180(resized)
                     [] cfg.rotate = Some(270) -> rotate270(resized)
        flipped == IF cfg.flip_horizontal THEN fliph(rotated) ELSE rotated
    IN IF cfg.flip_vertical THEN flipv(flipped) ELSE flipped

\* C18 (Invalid rotation is a pure no-op step): the rotate step of an angle outside
\* {90, 180, 270} leaves the image as it is and goes on to the flips; process_image
\* returns what resize, rotate, flip-horizontal, flip-vertical give in that order,
\* and with an invalid angle what the same configuration without rotation gives.
C18_InvalidRotationNoOp ==
    /\ [][(ipc = "rotate" /\ InvalidAngle(config)) =>
             (image' = image /\ ipc' = "fliph")]_vars
    /\ [](ipc = "return" =>
             image = InOrder(image0, IF InvalidAngle(config)
                                     THEN WithoutRotation(config) ELSE config))

\* process_image has returned for a configuration with a resize, both flips and
\* the angle 450, on an image that is not square
C18_Witness ==
    /\ ipc = "return"
    /\ config.rotate = Some(450)
    /\ config.resize # None
    /\ config.flip_horizontal /\ config.flip_vertical
    /\ image0.width # image0.height
    /\ image # image0

\* got is want * num / den to the nearest whole number, or the least size 1
ScaledTo(got, want, num, den) ==
    \/ 2 * got * den - 2 * want * num \in (0 - den)..den
    \/ got = 1 /\ 2 * want * num < den

\* C19 (Fixed-axis resize hits the target): right after the resize step,
\* fixed-width(w) has given an image of width exactly w and of the height scaled
\* by the same ratio, whether w is smaller or larger than the source width, and
\* fixed-height(h) an image of height exactly h and of the width scaled alike.
C19_FixedAxisHitsTarget ==
    (ipc = "rotate" /\ config.resize # None) =>
        LET o == Unwrap(config.resize)
        IN /\ o.kind = "Width" =>
                /\ image.width = o.a
                /\ ScaledTo(image.height, image0.height, o.a, image0.width)
           /\ o.kind = "Height" =>
                /\ image.height = o.a
                /\ ScaledTo(image.width, image0.width, o.a, image0.height)

\* C20 (Output path follows the configuration): the output path is the input's
\* relative path mirrored under the output root; its extension is the input's when
\* preserve-formats is set and png when it is not, whatever preserve-filenames is;
\* its stem is the input's when preserve-filenames is set.
C20_OutputPathFollowsConfig ==
    opc = "done" =>
        /\ output_path.root = "output_dir"
        /\ output_path.parent = path.parent
        /\ output_path.ext = (IF preserve_formats THEN path.ext ELSE "png")
        /\ preserve_filenames => output_path.stem = path.stem

====
